---- MODULE Spec2Model ----
(***************************************************************************)
(* A model of the two tools of apalis-tools:                               *)
(*   nvtegraparts     - decodes the NVIDIA partition table (PT) of a boot  *)
(*                      device and, when the PT names a GPT partition, the *)
(*                      GPT header and entry array of the GPT device;      *)
(*   trdx-configblock - decodes the Toradex configuration block.           *)
(* Memory is modelled as bytes (0..255).  A 32-bit unsigned value is the   *)
(* pair <<hi, lo>> of its 16-bit halves, because the model checker's       *)
(* integers are narrower than uint32_t.                                    *)
(***************************************************************************)
EXTENDS Integers, Sequences, FiniteSets, TLC

VARIABLES
    pc,          \* position of main() of nvtegraparts
    ret,         \* the value main() returns (-1 until the end)
    errs,        \* the err() messages printed so far, in order
    out,         \* the records printed to stdout (the output sink), in order
    pt,          \* content of the boot device (the PT image)
    i,           \* loop counter of main()
    gpt,         \* index of the partition the pointer gpt refers to, 0 for NULL
    gpt_block,   \* the 512 bytes read from the end of the GPT device
    sector_size, \* the local sector_size
    crc_self,    \* the local crc_self of main()
    crc_len,     \* the length main() passed to crc32(), <<0, 0>> before the call
    num_entries, \* the local num_entries
    gpt_size,    \* the local gpt_size
    count,       \* the local count (bytes allocated and read for the entries)
    allocs,      \* sizes passed to malloc for gpt_buf
    cpc,         \* position of main() / read_config_block() of trdx-configblock
    cret,        \* the value main() of trdx-configblock returns
    cand,        \* which read_config_block() call of main() is running (1, 2)
    cfg,         \* the command line of trdx-configblock
    rlen,        \* the local len of read_config_block(): what read() returned
    block,       \* the memory config_block points to, and what follows it
    tag_off,     \* the local tag_off
    hw,          \* the local hw (8 bytes)
    eth_addr,    \* the local eth_addr (6 bytes)
    serial,      \* the local serial
    cout,        \* what trdx-configblock printed to stdout, in order
    cerrs        \* what trdx-configblock printed to stderr, in order

ptVars == <<pc, ret, errs, out, pt, i, gpt, gpt_block, sector_size, crc_self, crc_len, num_entries,
            gpt_size, count, allocs>>

cfgVars == <<cpc, cret, cand, cfg, rlen, block, tag_off, hw, eth_addr, serial,
             cout, cerrs>>

vars == <<pc, ret, errs, out, pt, i, gpt, gpt_block, sector_size, crc_self, crc_len, num_entries,
          gpt_size, count, allocs, cpc, cret, cand, cfg, rlen, block, tag_off, hw,
          eth_addr, serial, cout, cerrs>>

----------------------------------------------------------------------------
(* Bytes and unsigned arithmetic *)

Byte == 0..255

\* An unsigned value as <<hi, lo>>, value hi * 65536 + lo, lo < 65536.
\* A uint32_t has hi < 65536; a size_t may have a larger hi.
W(n) == <<n \div 65536, n % 65536>>

WNorm(hi, lo) == <<hi + (lo \div 65536), lo % 65536>>

WLt(a, b) == a[1] < b[1] \/ (a[1] = b[1] /\ a[2] < b[2])

WLe(a, b) == a = b \/ WLt(a, b)

WAdd(a, b) == WNorm(a[1] + b[1], a[2] + b[2])

\* (x * y) mod 2^16 for x, y < 2^16, without an intermediate above 2^25
MulMod16(x, y) ==
    ((x * (y % 256)) + ((x * (y \div 256)) % 256) * 256) % 65536

\* x * y for x, y < 2^16, as a pair
Mul16(x, y) ==
    LET h == x * (y \div 256)
        l == x * (y % 256)
    IN  WAdd(<<h \div 256, (h % 256) * 256>>, W(l))

\* uint32_t * uint32_t, as C computes it: modulo 2^32
Mul32(a, b) ==
    LET low == Mul16(a[2], b[2])
    IN  <<(low[1] + MulMod16(a[1], b[2]) + MulMod16(a[2], b[1])) % 65536, low[2]>>

\* a / k and a % k for 0 < k < 2^15
WDivSmall(a, k) ==
    (a[1] \div k) * 65536 + (((a[1] % k) * 65536 + a[2]) \div k)

WModSmall(a, k) == ((a[1] % k) * 65536 + a[2]) % k

\* x * k for x < 2^24 and k < 2^13, as a pair (no wrap: a 64-bit size_t)
MulToW(x, k) == WAdd(<<(x \div 65536) * k, 0>>, W((x % 65536) * k))

\* little-endian uint32_t and uint16_t of a byte sequence b at 0-based offset o
Le32(b, o) == <<b[o + 4] * 256 + b[o + 3], b[o + 2] * 256 + b[o + 1]>>

Le16(b, o) == b[o + 2] * 256 + b[o + 1]

\* the four bytes of a uint32_t in memory (little-endian host)
Bytes32(w) == <<w[2] % 256, w[2] \div 256, w[1] % 256, w[1] \div 256>>

\* memcmp(a + ao, b, n) == 0 for byte sequences, b compared from its start
MemEq(a, ao, b, n) == \A k \in 1..n : a[ao + k] = b[k]

RECURSIVE Xor8(_, _)
Xor8(a, b) ==
    IF a = 0 THEN b
    ELSE IF b = 0 THEN a
    ELSE ((a + b) % 2) + 2 * Xor8(a \div 2, b \div 2)

----------------------------------------------------------------------------
(* CRC32 engine: crc32_tab and crc32() *)

\* Each entry of crc32_tab as its four bytes, least significant first.
crc32_tab == <<
    <<0,0,0,0>>, <<150,48,7,119>>, <<44,97,14,238>>, <<186,81,9,153>>,
    <<25,196,109,7>>, <<143,244,106,112>>, <<53,165,99,233>>, <<163,149,100,158>>,
    <<50,136,219,14>>, <<164,184,220,121>>, <<30,233,213,224>>, <<136,217,210,151>>,
    <<43,76,182,9>>, <<189,124,177,126>>, <<7,45,184,231>>, <<145,29,191,144>>,
    <<100,16,183,29>>, <<242,32,176,106>>, <<72,113,185,243>>, <<222,65,190,132>>,
    <<125,212,218,26>>, <<235,228,221,109>>, <<81,181,212,244>>, <<199,133,211,131>>,
    <<86,152,108,19>>, <<192,168,107,100>>, <<122,249,98,253>>, <<236,201,101,138>>,
    <<79,92,1,20>>, <<217,108,6,99>>, <<99,61,15,250>>, <<245,13,8,141>>,
    <<200,32,110,59>>, <<94,16,105,76>>, <<228,65,96,213>>, <<114,113,103,162>>,
    <<209,228,3,60>>, <<71,212,4,75>>, <<253,133,13,210>>, <<107,181,10,165>>,
    <<250,168,181,53>>, <<108,152,178,66>>, <<214,201,187,219>>, <<64,249,188,172>>,
    <<227,108,216,50>>, <<117,92,223,69>>, <<207,13,214,220>>, <<89,61,209,171>>,
    <<172,48,217,38>>, <<58,0,222,81>>, <<128,81,215,200>>, <<22,97,208,191>>,
    <<181,244,180,33>>, <<35,196,179,86>>, <<153,149,186,207>>, <<15,165,189,184>>,
    <<158,184,2,40>>, <<8,136,5,95>>, <<178,217,12,198>>, <<36,233,11,177>>,
    <<135,124,111,47>>, <<17,76,104,88>>, <<171,29,97,193>>, <<61,45,102,182>>,
    <<144,65,220,118>>, <<6,113,219,1>>, <<188,32,210,152>>, <<42,16,213,239>>,
    <<137,133,177,113>>, <<31,181,182,6>>, <<165,228,191,159>>, <<51,212,184,232>>,
    <<162,201,7,120>>, <<52,249,0,15>>, <<142,168,9,150>>, <<24,152,14,225>>,
    <<187,13,106,127>>, <<45,61,109,8>>, <<151,108,100,145>>, <<1,92,99,230>>,
    <<244,81,107,107>>, <<98,97,108,28>>, <<216,48,101,133>>, <<78,0,98,242>>,
    <<237,149,6,108>>, <<123,165,1,27>>, <<193,244,8,130>>, <<87,196,15,245>>,
    <<198,217,176,101>>, <<80,233,183,18>>, <<234,184,190,139>>, <<124,136,185,252>>,
    <<223,29,221,98>>, <<73,45,218,21>>, <<243,124,211,140>>, <<101,76,212,251>>,
    <<88,97,178,77>>, <<206,81,181,58>>, <<116,0,188,163>>, <<226,48,187,212>>,
    <<65,165,223,74>>, <<215,149,216,61>>, <<109,196,209,164>>, <<251,244,214,211>>,
    <<106,233,105,67>>, <<252,217,110,52>>, <<70,136,103,173>>, <<208,184,96,218>>,
    <<115,45,4,68>>, <<229,29,3,51>>, <<95,76,10,170>>, <<201,124,13,221>>,
    <<60,113,5,80>>, <<170,65,2,39>>, <<16,16,11,190>>, <<134,32,12,201>>,
    <<37,181,104,87>>, <<179,133,111,32>>, <<9,212,102,185>>, <<159,228,97,206>>,
    <<14,249,222,94>>, <<152,201,217,41>>, <<34,152,208,176>>, <<180,168,215,199>>,
    <<23,61,179,89>>, <<129,13,180,46>>, <<59,92,189,183>>, <<173,108,186,192>>,
    <<32,131,184,237>>, <<182,179,191,154>>, <<12,226,182,3>>, <<154,210,177,116>>,
    <<57,71,213,234>>, <<175,119,210,157>>, <<21,38,219,4>>, <<131,22,220,115>>,
    <<18,11,99,227>>, <<132,59,100,148>>, <<62,106,109,13>>, <<168,90,106,122>>,
    <<11,207,14,228>>, <<157,255,9,147>>, <<39,174,0,10>>, <<177,158,7,125>>,
    <<68,147,15,240>>, <<210,163,8,135>>, <<104,242,1,30>>, <<254,194,6,105>>,
    <<93,87,98,247>>, <<203,103,101,128>>, <<113,54,108,25>>, <<231,6,107,110>>,
    <<118,27,212,254>>, <<224,43,211,137>>, <<90,122,218,16>>, <<204,74,221,103>>,
    <<111,223,185,249>>, <<249,239,190,142>>, <<67,190,183,23>>, <<213,142,176,96>>,
    <<232,163,214,214>>, <<126,147,209,161>>, <<196,194,216,56>>, <<82,242,223,79>>,
    <<241,103,187,209>>, <<103,87,188,166>>, <<221,6,181,63>>, <<75,54,178,72>>,
    <<218,43,13,216>>, <<76,27,10,175>>, <<246,74,3,54>>, <<96,122,4,65>>,
    <<195,239,96,223>>, <<85,223,103,168>>, <<239,142,110,49>>, <<121,190,105,70>>,
    <<140,179,97,203>>, <<26,131,102,188>>, <<160,210,111,37>>, <<54,226,104,82>>,
    <<149,119,12,204>>, <<3,71,11,187>>, <<185,22,2,34>>, <<47,38,5,85>>,
    <<190,59,186,197>>, <<40,11,189,178>>, <<146,90,180,43>>, <<4,106,179,92>>,
    <<167,255,215,194>>, <<49,207,208,181>>, <<139,158,217,44>>, <<29,174,222,91>>,
    <<176,194,100,155>>, <<38,242,99,236>>, <<156,163,106,117>>, <<10,147,109,2>>,
    <<169,6,9,156>>, <<63,54,14,235>>, <<133,103,7,114>>, <<19,87,0,5>>,
    <<130,74,191,149>>, <<20,122,184,226>>, <<174,43,177,123>>, <<56,27,182,12>>,
    <<155,142,210,146>>, <<13,190,213,229>>, <<183,239,220,124>>, <<33,223,219,11>>,
    <<212,210,211,134>>, <<66,226,212,241>>, <<248,179,221,104>>, <<110,131,218,31>>,
    <<205,22,190,129>>, <<91,38,185,246>>, <<225,119,176,111>>, <<119,71,183,24>>,
    <<230,90,8,136>>, <<112,106,15,255>>, <<202,59,6,102>>, <<92,11,1,17>>,
    <<255,158,101,143>>, <<105,174,98,248>>, <<211,255,107,97>>, <<69,207,108,22>>,
    <<120,226,10,160>>, <<238,210,13,215>>, <<84,131,4,78>>, <<194,179,3,57>>,
    <<97,38,103,167>>, <<247,22,96,208>>, <<77,71,105,73>>, <<219,119,110,62>>,
    <<74,106,209,174>>, <<220,90,214,217>>, <<102,11,223,64>>, <<240,59,216,55>>,
    <<83,174,188,169>>, <<197,158,187,222>>, <<127,207,178,71>>, <<233,255,181,48>>,
    <<28,242,189,189>>, <<138,194,186,202>>, <<48,147,179,83>>, <<166,163,180,36>>,
    <<5,54,208,186>>, <<147,6,215,205>>, <<41,87,222,84>>, <<191,103,217,35>>,
    <<46,122,102,179>>, <<184,74,97,196>>, <<2,27,104,93>>, <<148,43,111,42>>,
    <<55,190,11,180>>, <<161,142,12,195>>, <<27,223,5,90>>, <<141,239,2,45>>
>>

Xor32(a, b) == [k \in 1..4 |-> Xor8(a[k], b[k])]

\* one iteration of the loop of crc32(): crc = crc32_tab[(crc ^ *p++) & 0xFF] ^ (crc >> 8).
\* The register is kept as its four bytes, least significant first; crc >> 8
\* drops the first.
crc32_step(crc, byte) ==
    Xor32(crc32_tab[Xor8(crc[1], byte) + 1], <<crc[2], crc[3], crc[4], 0>>)

\* the iterations of the loop over buf[lo..hi] (1-based), in order; the range
\* is split in halves to keep the evaluation shallow
RECURSIVE crc32_loop(_, _, _, _)
crc32_loop(crc, buf, lo, hi) ==
    IF lo > hi THEN crc
    ELSE IF lo = hi THEN crc32_step(crc, buf[lo])
    ELSE LET mid == (lo + hi) \div 2
             left == crc32_loop(crc, buf, lo, mid)
         IN  \* the test always holds; it has the first half computed before the second
             IF Len(left) = 4 THEN crc32_loop(left, buf, mid + 1, hi) ELSE left

\* crc32(buf, len): buf a byte sequence of at least len bytes
crc32(buf, len) ==
    Xor32(crc32_loop(<<255, 255, 255, 255>>, buf, 1, len), <<255, 255, 255, 255>>)

----------------------------------------------------------------------------
(* nvtegraparts: constants and the layout of the PT *)

MAX_NUM_PARTS == 24

MAX_SIZE == 4096

\* PT_VERSION 0x00000100
PT_VERSION == <<0, 256>>

\* VERSION 0x00010000, defined and never used by the code
VERSION == <<1, 0>>

BCT_ID == <<0, 2>>

GPT_BLOCK_SIZE == 512

PT_BCT_NAME == <<66, 67, 84, 0>>

PT_GPT_NAME == <<71, 80, 84, 0>>

GPT_SIGNATURE == <<69, 70, 73, 32, 80, 65, 82, 84>>

\* sizeof(struct nvtegra_partinfo) and the offsets of its fields
PARTINFO_SIZE == 80

OFF_ID == 0

OFF_NAME == 4

OFF_NAME2 == 20

OFF_START_SECTOR == 56

\* offsets in struct nvtegra_ptable
OFF_VERSION == 8

OFF_NUM_PARTS == 64

OFF_PARTITIONS == 72

\* A PT image, described by what its bytes hold: the header fields version and
\* num_parts and, for each of the 24 slots of partitions[], the fields id,
\* name, name2 and start_sector, each as its bytes.  Every other byte is 0.
\* img.parts is indexed 1..24 for partitions[0..23].
PtByte(img, off) ==
    IF off >= OFF_VERSION /\ off < OFF_VERSION + 4
        THEN img.version[off - OFF_VERSION + 1]
    ELSE IF off >= OFF_NUM_PARTS /\ off < OFF_NUM_PARTS + 4
        THEN img.num_parts[off - OFF_NUM_PARTS + 1]
    ELSE IF off >= OFF_PARTITIONS /\ off < OFF_PARTITIONS + MAX_NUM_PARTS * PARTINFO_SIZE
        THEN LET n == (off - OFF_PARTITIONS) \div PARTINFO_SIZE
                 o == (off - OFF_PARTITIONS) % PARTINFO_SIZE
                 p == img.parts[n + 1]
             IN  IF o >= OFF_ID /\ o < OFF_ID + 4 THEN p.id[o - OFF_ID + 1]
                 ELSE IF o >= OFF_NAME /\ o < OFF_NAME + 4 THEN p.name[o - OFF_NAME + 1]
                 ELSE IF o >= OFF_NAME2 /\ o < OFF_NAME2 + 4 THEN p.name2[o - OFF_NAME2 + 1]
                 ELSE IF o >= OFF_START_SECTOR /\ o < OFF_START_SECTOR + 4
                     THEN p.start_sector[o - OFF_START_SECTOR + 1]
                 ELSE 0
    ELSE 0

\* the n bytes of buf (the image read into memory) from offset off
PtMem(img, off, n) == [k \in 1..n |-> PtByte(img, off + k - 1)]

\* pt->version, pt->num_parts
pt_version(img) == Le32(PtMem(img, OFF_VERSION, 4), 0)

pt_num_parts(img) == Le32(PtMem(img, OFF_NUM_PARTS, 4), 0)

\* the fields of pt->partitions[n]
PartOff(n) == OFF_PARTITIONS + n * PARTINFO_SIZE

p_id(img, n) == Le32(PtMem(img, PartOff(n) + OFF_ID, 4), 0)

p_name(img, n) == PtMem(img, PartOff(n) + OFF_NAME, 4)

p_name2(img, n) == PtMem(img, PartOff(n) + OFF_NAME2, 4)

p_start_sector(img, n) == Le32(PtMem(img, PartOff(n) + OFF_START_SECTOR, 4), 0)

----------------------------------------------------------------------------
(* nvtegraparts: the checks main() makes on the PT *)

\* !(pt->version != PT_VERSION)
VersionOk(img) == pt_version(img) = PT_VERSION

\* the three checks of partitions[0]
BctIdOk(img) == p_id(img, 0) = BCT_ID

\* mutant: the second name field is not compared
BctNameOk_FirstOnly(img) ==
    MemEq(p_name(img, 0), 0, PT_BCT_NAME, Len(PT_BCT_NAME))

BctNameOk(img) ==
    /\ MemEq(p_name(img, 0), 0, PT_BCT_NAME, Len(PT_BCT_NAME))
    /\ MemEq(p_name2(img, 0), 0, PT_BCT_NAME, Len(PT_BCT_NAME))

BctStartOk(img) == p_start_sector(img, 0) = W(0)

\* mutant: the loop runs one record past the declared count
LoopCond_OffByOne(n, img) == n < MAX_NUM_PARTS /\ WLe(W(n), pt_num_parts(img))

\* the condition of the for loop over partitions[1..]
LoopCond(n, img) == n < MAX_NUM_PARTS /\ WLt(W(n), pt_num_parts(img))

\* mutant: p->id > 128
IdInvalid_Above(img, n) == WLt(W(128), p_id(img, n))

\* p->id >= 128
IdInvalid(img, n) == ~WLt(p_id(img, n), W(128))

\* mutant: the terminating byte of PT_GPT_NAME is compared too
IsGptName_AllBytes(img, n) ==
    /\ MemEq(p_name(img, n), 0, PT_GPT_NAME, Len(PT_GPT_NAME))
    /\ MemEq(p_name2(img, n), 0, PT_GPT_NAME, Len(PT_GPT_NAME))

\* both names start with the first sizeof(PT_GPT_NAME) - 1 bytes of PT_GPT_NAME
IsGptName(img, n) ==
    /\ MemEq(p_name(img, n), 0, PT_GPT_NAME, Len(PT_GPT_NAME) - 1)
    /\ MemEq(p_name2(img, n), 0, PT_GPT_NAME, Len(PT_GPT_NAME) - 1)

\* nvtegra_partition_print(n, p): the record handed to the output sink
PartRecord(img, n) ==
    [kind |-> "part", n |-> n, id |-> p_id(img, n), name |-> p_name(img, n)]

----------------------------------------------------------------------------
(* The PT images the boot device may hold *)

\* the largest slot index below 23 that may hold a record other than Plain
MaxSlot == 3

Partinfo(id, name, name2, start) ==
    [id |-> Bytes32(id), name |-> name, name2 |-> name2, start_sector |-> Bytes32(start)]

NameAPP == <<65, 80, 80, 0>>

NameGPTsp == <<71, 80, 84, 32>>

NameGptLower == <<103, 112, 116, 0>>

Plain == Partinfo(W(5), NameAPP, NameAPP, W(8))

BctGood == Partinfo(BCT_ID, PT_BCT_NAME, PT_BCT_NAME, W(0))

\* records for the slots 1..23
SlotKinds ==
    { Plain,
      Partinfo(W(128), NameAPP, NameAPP, W(8)),
      Partinfo(<<65535, 65535>>, PT_GPT_NAME, PT_GPT_NAME, W(8)),
      Partinfo(W(127), PT_GPT_NAME, PT_GPT_NAME, W(8)),
      Partinfo(W(5), NameGPTsp, NameGPTsp, W(8)),
      Partinfo(W(6), PT_GPT_NAME, NameAPP, W(8)),
      Partinfo(W(7), NameGptLower, NameGptLower, W(8)) }

\* records for slot 0 that fail one of the checks
BctBad ==
    { Partinfo(W(3), PT_BCT_NAME, PT_BCT_NAME, W(0)),
      Partinfo(<<2, 2>>, PT_BCT_NAME, PT_BCT_NAME, W(0)),
      Partinfo(BCT_ID, <<66, 67, 88, 0>>, PT_BCT_NAME, W(0)),
      Partinfo(BCT_ID, PT_BCT_NAME, <<66, 67, 84, 32>>, W(0)),
      Partinfo(BCT_ID, PT_BCT_NAME, <<66, 67, 88, 0>>, W(0)),
      Partinfo(BCT_ID, PT_BCT_NAME, PT_BCT_NAME, W(1)),
      Partinfo(BCT_ID, PT_BCT_NAME, PT_BCT_NAME, <<1, 0>>) }

SlotPositions == (1..MaxSlot) \cup {MAX_NUM_PARTS - 1}

NumPartsValues ==
    {W(n) : n \in 0..(MaxSlot + 1)} \cup
    {W(MAX_NUM_PARTS - 1), W(MAX_NUM_PARTS), W(MAX_NUM_PARTS + 1), <<1, 0>>, <<65535, 65535>>}

PtImage(version, num_parts, r0, p1, k1, p2, k2) ==
    [version |-> Bytes32(version),
     num_parts |-> Bytes32(num_parts),
     parts |-> [n \in 1..MAX_NUM_PARTS |->
                  IF n = 1 THEN r0
                  ELSE IF n - 1 = p1 THEN k1
                  ELSE IF n - 1 = p2 THEN k2
                  ELSE Plain]]

\* images that pass the version and BCT checks
PtImagesGood ==
    { PtImage(PT_VERSION, np, BctGood, p1, k1, p2, k2) :
        np \in NumPartsValues, p1 \in SlotPositions, k1 \in SlotKinds,
        p2 \in SlotPositions, k2 \in SlotKinds }

\* images with another version, or with a bad record 0, and varied other records
PtImagesBad ==
    { PtImage(v, np, r0, p1, k1, p1, k1) :
        v \in {PT_VERSION, VERSION, W(0), <<256, 256>>},
        np \in {W(0), W(2), W(MAX_NUM_PARTS)},
        r0 \in BctBad \cup {BctGood},
        p1 \in {1}, k1 \in SlotKinds }

PtImages == PtImagesGood \cup PtImagesBad

\* the table of the end-to-end scenario: 2 partitions, BCT and "GPT " with id 5
ScenarioImage ==
    PtImage(PT_VERSION, W(2), BctGood, 1, Partinfo(W(5), NameGPTsp, NameGPTsp, W(8)),
            1, Partinfo(W(5), NameGPTsp, NameGPTsp, W(8)))

NoImage == PtImage(W(0), W(0), Plain, 1, Plain, 1, Plain)

----------------------------------------------------------------------------
(* nvtegraparts: the GPT header block *)

\* offsets in struct gpt_header, and its size
GH_SIGNATURE == 0

GH_SIZE == 12

GH_CRC_SELF == 16

GH_LBA_TABLE == 72

GH_NUM_ENTRIES == 80

GH_ENTRY_SIZE == 84

GPT_HEADER_SIZE == 92

\* sizeof(struct gpt_entry)
GPT_ENTRY_SIZE == 128

Zeros(n) == [k \in 1..n |-> 0]

\* b with the n bytes v written at 0-based offset o
Poke(b, o, v) ==
    [k \in 1..Len(b) |-> IF k > o /\ k <= o + Len(v) THEN v[k - o] ELSE b[k]]

\* The 512 bytes of a header block with the given signature, size, crc_self,
\* num_entries and entry_size; version 0x00010000, lba_table 2, all else 0.
GptBlock(sig, size, crc, n, es) ==
    Poke(Poke(Poke(Poke(Poke(Poke(Poke(Zeros(GPT_BLOCK_SIZE),
        GH_SIGNATURE, sig), 8, <<0, 0, 1, 0>>), GH_SIZE, Bytes32(size)),
        GH_CRC_SELF, crc), GH_LBA_TABLE, <<2, 0, 0, 0, 0, 0, 0, 0>>),
        GH_NUM_ENTRIES, Bytes32(n)), GH_ENTRY_SIZE, Bytes32(es))

\* gpt_h->size, gpt_h->crc_self (as its bytes), gpt_h->num_entries, gpt_h->entry_size
gh_size(b) == Le32(b, GH_SIZE)

gh_crc_self(b) == SubSeq(b, GH_CRC_SELF + 1, GH_CRC_SELF + 4)

gh_num_entries(b) == Le32(b, GH_NUM_ENTRIES)

gh_entry_size(b) == Le32(b, GH_ENTRY_SIZE)

\* memcmp(gpt_h->signature, GPT_SIGNATURE, sizeof(GPT_SIGNATURE)) == 0
SignatureOk(b) == MemEq(b, GH_SIGNATURE, GPT_SIGNATURE, Len(GPT_SIGNATURE))

\* gpt_h->crc_self = 0
ZeroCrcSelf(b) == Poke(b, GH_CRC_SELF, <<0, 0, 0, 0>>)

\* the whole of the length given to crc32() lies in gpt_block
CrcInBlock(b) == WLe(gh_size(b), W(GPT_BLOCK_SIZE))

\* crc32(gpt_h, le32toh(gpt_h->size)) once crc_self is zeroed, for a length
\* inside the block
HeaderCrc(b) == crc32(ZeroCrcSelf(b), gh_size(b)[2])

\* crc == crc_self
CrcOk(b) == HeaderCrc(b) = gh_crc_self(b)

\* the sizes computed from the header and the sector size
GptSize(b) == Mul32(gh_num_entries(b), gh_entry_size(b))

Blocks(gs, ss) == WDivSmall(gs, ss) + (IF WModSmall(gs, ss) # 0 THEN 1 ELSE 0)

Count(gs, ss) == MulToW(Blocks(gs, ss), ss)

\* byte offset of entry n in gpt_buf: n * le32toh(gpt_h->entry_size)
EntryOff(b, n) == Mul32(W(n), gh_entry_size(b))

\* the struct gpt_entry at that offset lies inside the cnt bytes of gpt_buf
EntryInside(b, n, cnt) == WLe(WAdd(EntryOff(b, n), W(GPT_ENTRY_SIZE)), cnt)

----------------------------------------------------------------------------
(* The header blocks the GPT device may hold *)

\* the largest num_entries of a header whose entries are all 128 bytes
MaxEntries == 3

HeaderSizes == {W(GPT_HEADER_SIZE), W(16), W(0), W(GPT_BLOCK_SIZE)}

HeaderSizesOutside == {W(GPT_BLOCK_SIZE + 1), <<1, 0>>}

\* <<num_entries, entry_size>>
EntryShapes ==
    {<<W(n), W(GPT_ENTRY_SIZE)>> : n \in 0..MaxEntries} \cup
    { <<W(2), W(256)>>, <<W(2), W(64)>>, <<W(5), W(100)>>, <<W(1), W(0)>>, <<W(3), <<8, 0>>>>, <<W(1), <<16, 1>>>>,
      <<W(2), <<16, 0>>>>, <<W(2), <<32768, 0>>>>, <<W(3), <<21845, 21846>>>> }

\* a block whose stored crc_self is the CRC32 of its first size bytes
GoodHeader(sig, size, shape) ==
    LET b == GptBlock(sig, size, <<0, 0, 0, 0>>, shape[1], shape[2])
    IN  Poke(b, GH_CRC_SELF, crc32(b, size[2]))

\* b with the byte at offset o altered
Tamper(b, o, d) == Poke(b, o, <<(b[o + 1] + d) % 256>>)

TamperOffsets == {0, 7, 8, 12, 13, 20, 72, 80, 84, 91, 92, 511}

GptHeadersGood ==
    {GoodHeader(GPT_SIGNATURE, sz, sh) : sz \in HeaderSizes, sh \in EntryShapes}

GptHeadersTampered ==
    {Tamper(GoodHeader(GPT_SIGNATURE, sz, <<W(2), W(GPT_ENTRY_SIZE)>>), o, d) :
        sz \in HeaderSizes, o \in TamperOffsets, d \in {1, 128}}

GptHeadersBadCrc ==
    {Tamper(GoodHeader(GPT_SIGNATURE, sz, <<W(2), W(GPT_ENTRY_SIZE)>>), o, 1) :
        sz \in HeaderSizes, o \in GH_CRC_SELF..(GH_CRC_SELF + 3)}

GptHeadersBadSig ==
    {GoodHeader(sig, W(GPT_HEADER_SIZE), <<W(2), W(GPT_ENTRY_SIZE)>>) :
        sig \in {<<69, 70, 73, 32, 80, 65, 82, 0>>, <<101, 70, 73, 32, 80, 65, 82, 84>>,
                 <<0, 0, 0, 0, 0, 0, 0, 0>>}}

GptHeadersOutside ==
    {GptBlock(GPT_SIGNATURE, sz, <<1, 2, 3, 4>>, W(1), W(GPT_ENTRY_SIZE)) :
        sz \in HeaderSizesOutside}

GptHeaders ==
    GptHeadersGood \cup GptHeadersTampered \cup GptHeadersBadCrc \cup
    GptHeadersBadSig \cup GptHeadersOutside

GptHeadersFew ==
    { GoodHeader(GPT_SIGNATURE, W(GPT_HEADER_SIZE), <<W(2), W(GPT_ENTRY_SIZE)>>),
      GoodHeader(<<0, 0, 0, 0, 0, 0, 0, 0>>, W(GPT_HEADER_SIZE), <<W(2), W(GPT_ENTRY_SIZE)>>),
      Tamper(GoodHeader(GPT_SIGNATURE, W(GPT_HEADER_SIZE), <<W(2), W(GPT_ENTRY_SIZE)>>),
             GH_CRC_SELF, 1) }

\* The GPT device is varied in full under the table of the end-to-end scenario
\* and over a few headers under every other table.
GptHeadersFor(img) == IF img = ScenarioImage THEN GptHeaders ELSE GptHeadersFew

SectorSizes == {512, 4096}

----------------------------------------------------------------------------
(* nvtegraparts: main() *)

\* goto err_free with ret still -1, after err() printed e
Fail(e) ==
    /\ errs' = Append(errs, e)
    /\ pc' = "done"

\* malloc(MAX_SIZE), fopen(boot_dev), fread(buf, 1, MAX_SIZE, fp)
ReadPt ==
    /\ pc = "read_pt"
    /\ \/ /\ Fail("NoMemory")
          /\ UNCHANGED pt
       \/ /\ Fail("OpenFailed")
          /\ UNCHANGED pt
       \/ \* fread returned fewer than MAX_SIZE bytes
          /\ Fail("IoError")
          /\ UNCHANGED pt
       \/ /\ \E img \in PtImages : pt' = img
          /\ pc' = "check_version"
          /\ UNCHANGED errs
    /\ UNCHANGED <<ret, out, i, gpt, gpt_block, sector_size, crc_self, crc_len,
                   num_entries, gpt_size, count, allocs>>
    /\ UNCHANGED cfgVars

\* if (pt->version != PT_VERSION) ...; printf("nvtegra partition table ...")
CheckVersion ==
    /\ pc = "check_version"
    /\ IF VersionOk(pt)
       THEN /\ out' = Append(out, [kind |-> "pt_table", num_parts |-> pt_num_parts(pt)])
            /\ pc' = "bct"
            /\ UNCHANGED errs
       ELSE /\ Fail("VersionMismatch")
            /\ UNCHANGED out
    /\ UNCHANGED <<ret, pt, i, gpt, gpt_block, sector_size, crc_self, crc_len,
                   num_entries, gpt_size, count, allocs>>
    /\ UNCHANGED cfgVars

\* p = &pt->partitions[0]; nvtegra_partition_print(0, p); the checks of the BCT
CheckBct ==
    /\ pc = "bct"
    /\ out' = Append(out, PartRecord(pt, 0))
    /\ IF BctIdOk(pt) /\ BctNameOk(pt) /\ BctStartOk(pt)
       THEN /\ gpt' = 0
            /\ i' = 1
            /\ pc' = "loop"
            /\ UNCHANGED errs
       ELSE /\ Fail("InvalidBootConfigRecord")
            /\ UNCHANGED <<gpt, i>>
    /\ UNCHANGED <<ret, pt, gpt_block, sector_size, crc_self, crc_len,
                   num_entries, gpt_size, count, allocs>>
    /\ UNCHANGED cfgVars

\* one evaluation of the for loop's condition and, when it holds, of its body
PartLoop ==
    /\ pc = "loop"
    /\ IF LoopCond(i, pt)
       THEN IF IdInvalid(pt, i)
            THEN \* err("Invalid id"); break
                 /\ errs' = Append(errs, "InvalidId")
                 /\ pc' = "after_loop"
                 /\ UNCHANGED <<out, gpt, i>>
            ELSE /\ out' = Append(out, PartRecord(pt, i))
                 /\ gpt' = IF IsGptName(pt, i) THEN i ELSE gpt
                 /\ i' = i + 1
                 /\ UNCHANGED <<errs, pc>>
       ELSE /\ pc' = "after_loop"
            /\ UNCHANGED <<errs, out, gpt, i>>
    /\ UNCHANGED <<ret, pt, gpt_block, sector_size, crc_self, crc_len,
                   num_entries, gpt_size, count, allocs>>
    /\ UNCHANGED cfgVars

\* if (gpt) { ... } else { printf("No GPT found ..."); }  ret = 0
AfterLoop ==
    /\ pc = "after_loop"
    /\ IF gpt # 0
       THEN /\ pc' = "gpt_header"
            /\ UNCHANGED <<out, ret>>
       ELSE /\ out' = Append(out, [kind |-> "no_gpt"])
            /\ ret' = 0
            /\ pc' = "done"
    /\ UNCHANGED <<errs, pt, i, gpt, gpt_block, sector_size, crc_self, crc_len,
                   num_entries, gpt_size, count, allocs>>
    /\ UNCHANGED cfgVars

\* open(gpt_dev), lseek64(fd, -GPT_BLOCK_SIZE, SEEK_END), read(fd, gpt_block, GPT_BLOCK_SIZE)
GptReadHeader ==
    /\ pc = "gpt_header"
    /\ \/ /\ Fail("OpenFailed")
          /\ UNCHANGED gpt_block
       \/ /\ Fail("SeekFailed")
          /\ UNCHANGED gpt_block
       \/ \* read returned -1 or fewer than GPT_BLOCK_SIZE bytes
          /\ Fail("IoError")
          /\ UNCHANGED gpt_block
       \/ /\ \E b \in GptHeadersFor(pt) : gpt_block' = b
          /\ pc' = "gpt_signature"
          /\ UNCHANGED errs
    /\ UNCHANGED <<ret, out, pt, i, gpt, sector_size, crc_self, crc_len,
                   num_entries, gpt_size, count, allocs>>
    /\ UNCHANGED cfgVars

\* the memcmp of the signature
GptCheckSignature ==
    /\ pc = "gpt_signature"
    /\ IF SignatureOk(gpt_block)
       THEN /\ pc' = "gpt_crc"
            /\ UNCHANGED errs
       ELSE Fail("BadSignature")
    /\ UNCHANGED <<ret, out, pt, i, gpt, gpt_block, sector_size, crc_self, crc_len,
                   num_entries, gpt_size, count, allocs>>
    /\ UNCHANGED cfgVars

\* crc_self = gpt_h->crc_self; gpt_h->crc_self = 0; crc = crc32(gpt_h, size);
\* if (crc != crc_self) ...   A size above GPT_BLOCK_SIZE makes crc32() read
\* past the end of gpt_block, an array on the stack: the read faults where the
\* stack ends, and else what it computes is any value.
GptCheckCrc ==
    /\ pc = "gpt_crc"
    /\ crc_self' = gh_crc_self(gpt_block)
    /\ crc_len' = gh_size(gpt_block)
    /\ gpt_block' = ZeroCrcSelf(gpt_block)
    /\ \/ /\ IF CrcInBlock(gpt_block) THEN CrcOk(gpt_block) ELSE TRUE
          /\ pc' = "gpt_sizes"
          /\ UNCHANGED errs
       \/ /\ IF CrcInBlock(gpt_block) THEN ~CrcOk(gpt_block) ELSE TRUE
          /\ Fail("HeaderCrcMismatch")
       \/ /\ ~CrcInBlock(gpt_block)
          /\ pc' = "fault"
          /\ UNCHANGED errs
    /\ UNCHANGED <<ret, out, pt, i, gpt, sector_size,
                   num_entries, gpt_size, count, allocs>>
    /\ UNCHANGED cfgVars

\* ioctl(BLKSSZGET), the sizes, malloc(count)
GptSizes ==
    /\ pc = "gpt_sizes"
    /\ \E ss \in SectorSizes :
         /\ sector_size' = ss
         /\ num_entries' = gh_num_entries(gpt_block)
         /\ gpt_size' = GptSize(gpt_block)
         /\ count' = Count(GptSize(gpt_block), ss)
    /\ \/ /\ allocs' = Append(allocs, count')
          /\ pc' = "gpt_read"
          /\ UNCHANGED errs
       \/ \* malloc returned NULL
          /\ Fail("NoMemory")
          /\ UNCHANGED allocs
    /\ UNCHANGED <<ret, out, pt, i, gpt, gpt_block, crc_self, crc_len>>
    /\ UNCHANGED cfgVars

\* lseek64 to the table, read(fd, gpt_buf, count), the printf of the table line
GptReadTable ==
    /\ pc = "gpt_read"
    /\ \/ /\ Fail("SeekFailed")
          /\ UNCHANGED <<out, i>>
       \/ \* read returned -1 or fewer than count bytes
          /\ Fail("IoError")
          /\ UNCHANGED <<out, i>>
       \/ /\ out' = Append(out, [kind |-> "gpt_table", num_entries |-> num_entries,
                                 size |-> gpt_size])
          /\ i' = 0
          /\ pc' = "gpt_entries"
          /\ UNCHANGED errs
    /\ UNCHANGED <<ret, pt, gpt, gpt_block, sector_size, crc_self, crc_len,
                   num_entries, gpt_size, count, allocs>>
    /\ UNCHANGED cfgVars

\* What a call of c16_to_string() may do.  It hands mbrlen() and c16rtomb() an
\* mbstate_t that was never initialised: with a state that happens to be an
\* initial one the name is converted, with any other the C library aborts the
\* process (assertion in mbrtowc).
c16_to_string_outcomes == {"converted", "abort"}

\* one evaluation of the condition of the loop over the entries and, when it
\* holds, gpt_partition_print(i, gpt_e), which converts the name with
\* c16_to_string() before it prints.  An entry that does not lie inside
\* gpt_buf is read from outside it: the print shows any bytes, or the read faults.
GptEntry ==
    /\ pc = "gpt_entries"
    /\ IF WLt(W(i), num_entries)
       THEN \/ /\ "converted" \in c16_to_string_outcomes
               /\ out' = Append(out, [kind |-> "gpt_entry", n |-> i,
                                      off |-> EntryOff(gpt_block, i),
                                      inside |-> EntryInside(gpt_block, i, count)])
               /\ i' = i + 1
               /\ UNCHANGED <<pc, ret>>
            \/ /\ "abort" \in c16_to_string_outcomes
               /\ pc' = "fault"
               /\ UNCHANGED <<out, i, ret>>
            \/ /\ ~EntryInside(gpt_block, i, count)
               /\ pc' = "fault"
               /\ UNCHANGED <<out, i, ret>>
       ELSE /\ ret' = 0
            /\ pc' = "done"
            /\ UNCHANGED <<out, i>>
    /\ UNCHANGED <<errs, pt, gpt, gpt_block, sector_size, crc_self, crc_len,
                   num_entries, gpt_size, count, allocs>>
    /\ UNCHANGED cfgVars

----------------------------------------------------------------------------
(* trdx-configblock: constants, the tag layout, the module table *)

TRDX_CFG_BLOCK_MAX_SIZE == 512

\* DEFAULT_ARG_PART_OFF 0x00000c00
DEFAULT_ARG_PART_OFF == 3072

DEFAULT_SECTOR_SIZE == 4096

DEFAULT_EMMC_BOOT_OFF == -512

\* TAG_VALID 0xcf01
TAG_VALID == 52993

TAG_MAC == 0

TAG_HW == 8

TAG_FLAG_VALID == 1

\* sizeof(struct toradex_tag), sizeof(struct toradex_hw), sizeof(struct toradex_eth_addr)
TAG_SIZE == 4

HW_SIZE == 8

ETH_ADDR_SIZE == 6

\* struct toradex_tag at 0-based offset o of b: len is the low 14 bits of the
\* first 16-bit word, flags its high 2 bits, id the second 16-bit word
tag_len(b, o) == Le16(b, o) % 16384

tag_flags(b, o) == Le16(b, o) \div 16384

tag_id(b, o) == Le16(b, o + 2)

\* hw.ver_major, hw.ver_minor, hw.ver_assembly, hw.prodid of the 8 bytes of hw
hw_ver_major(h) == Le16(h, 0)

hw_ver_minor(h) == Le16(h, 2)

hw_ver_assembly(h) == Le16(h, 4)

hw_prodid(h) == Le16(h, 6)

\* a null pointer of the table
NULL == "(null)"

toradex_modules == <<
    "invalid",
    "Colibri PXA270 312MHz",
    "Colibri PXA270 520MHz",
    "Colibri PXA320 806MHz",
    "Colibri PXA300 208MHz",
    "Colibri PXA310 624MHz",
    "Colibri PXA320 806MHz IT",
    "Colibri PXA300 208MHz XT",
    "Colibri PXA270 312MHz",
    "Colibri PXA270 520MHz",
    "Colibri VF50 128MB",
    "Colibri VF61 256MB",
    "Colibri VF61 256MB IT",
    "Colibri VF50 128MB IT",
    "Colibri iMX6 Solo 256MB",
    "Colibri iMX6 DualLite 512MB",
    "Colibri iMX6 Solo 256MB IT",
    "Colibri iMX6 DualLite 512MB IT",
    NULL,
    NULL,
    "Colibri T20 256MB",
    "Colibri T20 512MB",
    "Colibri T20 512MB IT",
    "Colibri T30 1GB",
    "Colibri T20 256MB IT",
    "Apalis T30 2GB",
    "Apalis T30 1GB",
    "Apalis iMX6 Quad 1GB",
    "Apalis iMX6 Quad 2GB IT",
    "Apalis iMX6 Dual 512MB",
    "Colibri T30 1GB IT",
    "Apalis T30 1GB IT" >>

\* prodid is the index of an entry of the table that holds a name
ModuleDefined(prodid) ==
    prodid < Len(toradex_modules) /\ toradex_modules[prodid + 1] # NULL

\* What printf("%s", toradex_modules[prodid]) may show.  Outside the table the
\* pointer is whatever follows it in memory; a null pointer is shown as "(null)"
\* by some C libraries.  In both cases the read may also fault.
ModuleNames(prodid) ==
    IF ModuleDefined(prodid) THEN {toradex_modules[prodid + 1]}
    ELSE IF prodid < Len(toradex_modules) THEN {NULL}
    ELSE {"<bytes outside the table>"}

\* ntohl(eth_addr.nic) >> 8: nic is the 24-bit field in bytes 3..5 of eth_addr;
\* as a uint32_t its bytes in memory are b3 b4 b5 0; ntohl reverses them, so the
\* value is b3 b4 b5 0 read most significant first; >> 8 drops the last
Serial(e) == e[4] * 65536 + e[5] * 256 + e[6]

\* the six values of the MAC line: oui then nic, each least significant byte first
MacBytes(e) == <<e[1], e[2], e[3], e[4], e[5], e[6]>>

\* len < read_size, with len the size_t that holds what read() returned:
\* -1 becomes SIZE_MAX, of which the low 32 bits are kept here
ShortRead(r, read_size) ==
    WLt(IF r < 0 THEN <<65535, 65535>> ELSE W(r), W(read_size))

\* the test of the first tag that ends the decode with "No valid Toradex config block"
NoConfigBlock(b) ==
    tag_flags(b, 0) # TAG_FLAG_VALID /\ tag_id(b, 0) # TAG_VALID

----------------------------------------------------------------------------
(* The command lines and the blocks trdx-configblock may see *)

NoArgs == [devfile |-> "", skip_set |-> FALSE, n |-> DEFAULT_ARG_PART_OFF, units |-> "sectors"]

CmdLines ==
    { NoArgs,
      [devfile |-> "/dev/sdb", skip_set |-> FALSE, n |-> DEFAULT_ARG_PART_OFF, units |-> "sectors"],
      [devfile |-> "", skip_set |-> TRUE, n |-> 1, units |-> "sectors"],
      [devfile |-> "/dev/sdb", skip_set |-> TRUE, n |-> 512, units |-> "bytes"] }

\* skip as main() passes it on: the option's number, in sectors unless given in bytes
SkipArg(c) == IF c.units = "sectors" THEN c.n * DEFAULT_SECTOR_SIZE ELSE c.n

\* the arguments of the k-th call of read_config_block() by main()
CallDev(c, k) ==
    IF c.devfile # "" THEN c.devfile
    ELSE IF k = 1 THEN "/dev/mmcblk0boot0" ELSE "/dev/mmcblk0"

CallSkip(c, k) ==
    IF c.devfile # "" THEN SkipArg(c)
    ELSE IF c.skip_set THEN SkipArg(c)
    ELSE IF k = 1 THEN DEFAULT_EMMC_BOOT_OFF
    ELSE DEFAULT_ARG_PART_OFF * DEFAULT_SECTOR_SIZE

\* the bytes of a tag: its header, then its payload as given
Tag(l, flags, id, data) ==
    LET w == l + flags * 16384
    IN  <<w % 256, w \div 256, id % 256, id \div 256>> \o data

\* s cut or filled with the byte f to n bytes
Pad(s, n, f) == [k \in 1..n |-> IF k <= Len(s) THEN s[k] ELSE f]

RECURSIVE Repeat(_, _)
Repeat(s, n) == IF n = 0 THEN <<>> ELSE s \o Repeat(s, n - 1)

MacTag(flags) == Tag(2, flags, TAG_MAC, <<0, 20, 45, 1, 2, 3, 0, 0>>)

HwTag(prodid) == Tag(2, TAG_FLAG_VALID, TAG_HW, <<1, 0, 2, 0, 3, 0, prodid % 256, prodid \div 256>>)

\* first tags: the id and flags of the sentinel and others
FirstTags ==
    { Tag(0, TAG_FLAG_VALID, TAG_VALID, <<>>),
      Tag(0, TAG_FLAG_VALID, 4660, <<>>),
      Tag(0, 0, TAG_VALID, <<>>),
      Tag(0, 3, TAG_VALID, <<>>),
      Tag(0, 0, 0, <<>>),
      Tag(16383, 3, 65535, <<>>) }

\* the largest number of zero-length tags in a row before the end of the block
MaxRun == 3

\* what follows the first tag
Bodies ==
    { <<>>,
      MacTag(TAG_FLAG_VALID) \o HwTag(27),
      HwTag(27) \o MacTag(TAG_FLAG_VALID),
      MacTag(3) \o HwTag(27),
      MacTag(2) \o HwTag(27),
      Tag(1, TAG_FLAG_VALID, 7, <<9, 9, 9, 9>>) \o MacTag(TAG_FLAG_VALID) \o HwTag(1),
      Tag(0, TAG_FLAG_VALID, TAG_MAC, <<>>) \o HwTag(31),
      Tag(16383, TAG_FLAG_VALID, 7, <<>>) \o HwTag(1),
      Tag(200, TAG_FLAG_VALID, 7, <<>>) \o HwTag(1),
      Tag(130, TAG_FLAG_VALID, 7, <<>>),
      Tag(131, TAG_FLAG_VALID, 7, <<>>),
      Tag(130, TAG_FLAG_VALID, TAG_MAC, <<>>),
      Tag(132, TAG_FLAG_VALID, TAG_HW, <<>>),
      Tag(388, TAG_FLAG_VALID, 7, <<>>),
      Tag(1156, TAG_FLAG_VALID, 7, <<>>),
      Tag(125, TAG_FLAG_VALID, 7, Zeros(500)) \o MacTag(TAG_FLAG_VALID),
      Tag(125, TAG_FLAG_VALID, 7, Zeros(500)) \o HwTag(1) } \cup
    { HwTag(p) : p \in {0, 17, 18, 19, 20, 31, 32, 65535} } \cup
    { Tag(126 - n, TAG_FLAG_VALID, 7, Zeros(4 * (126 - n))) \o
        Repeat(Tag(0, TAG_FLAG_VALID, 7, <<>>), n) : n \in 1..MaxRun }

CfgBlocks ==
    { Pad(f \o b, TRDX_CFG_BLOCK_MAX_SIZE, fill) :
        f \in FirstTags, b \in Bodies, fill \in {0} } \cup
    { Pad(Tag(0, TAG_FLAG_VALID, TAG_VALID, <<>>) \o MacTag(TAG_FLAG_VALID),
          TRDX_CFG_BLOCK_MAX_SIZE, 255) }

\* the memory that follows the 512 bytes of config_block, as far as it can be read
Tails ==
    { <<>>,
      Zeros(16),
      HwTag(27) \o Zeros(4),
      Tag(0, TAG_FLAG_VALID, 7, <<>>) \o MacTag(TAG_FLAG_VALID) }

\* the characters of a device name, as bytes
DevBytes(dev) ==
    CASE dev = "/dev/sdb" -> <<47, 100, 101, 118, 47, 115, 100, 98>>
      [] dev = "/dev/mmcblk0boot0" -> <<47, 100, 101, 118, 47, 109, 109, 99, 98, 108, 107, 48, 98, 111, 111, 116, 48>>
      [] dev = "/dev/mmcblk0" -> <<47, 100, 101, 118, 47, 109, 109, 99, 98, 108, 107, 48>>

\* the sizes in bytes of the devices, for lseek64(fd, skip, SEEK_END)
DeviceSizes == {4194304}

\* what lseek64() returns for skip: the offset itself, or for a negative skip
\* the offset from the end of the device
Positions(skip) == IF skip < 0 THEN {sz + skip : sz \in DeviceSizes} ELSE {skip}

\* a hexadecimal digit as a character, and a number as printf("%08jx") shows it
HexDigit(d) == IF d < 10 THEN 48 + d ELSE 87 + d

Hex8(n) == [k \in 1..8 |-> HexDigit((n \div (16 ^ (8 - k))) % 16)]

\* the line "Toradex config block found on <dev> at 0x<pos>\n"
FoundLine(dev, pos) ==
    <<84, 111, 114, 97, 100, 101, 120, 32, 99, 111, 110, 102, 105, 103, 32, 98, 108, 111, 99, 107, 32, 102, 111, 117, 110, 100, 32, 111, 110, 32>> \o DevBytes(dev) \o <<32, 97, 116, 32, 48, 120>> \o Hex8(pos) \o <<10>>

\* The size field of the heap chunk of the stdio buffer of stdout: 4096 + 16
\* bytes for a pipe or a file, 1024 + 16 for a terminal, with the in-use bit.
StdoutChunkSizes == {<<17, 16>>, <<17, 4>>}

\* The heap after config_block with the C library's allocator, when the walk
\* runs: the 8 spare bytes of the block's chunk, the 8-byte size field of the
\* next chunk, and that chunk, the stdio buffer of stdout, which holds the line
\* printf() has just put there.
StdoutTails(dev, pos) ==
    { Zeros(8) \o Pad(sz, 8, 0) \o FoundLine(dev, pos) : sz \in StdoutChunkSizes }

InitPt ==
    /\ pc = "read_pt"
    /\ ret = -1
    /\ errs = <<>>
    /\ out = <<>>
    /\ pt = NoImage
    /\ i = 0
    /\ gpt = 0
    /\ gpt_block = <<>>
    /\ sector_size = 0
    /\ crc_self = <<0, 0, 0, 0>>
    /\ crc_len = W(0)
    /\ num_entries = W(0)
    /\ gpt_size = W(0)
    /\ count = W(0)
    /\ allocs = <<>>

InitCfg ==
    /\ cpc = "main"
    /\ cret = -1
    /\ cand = 0
    /\ cfg = NoArgs
    /\ rlen = 0
    /\ block = <<>>
    /\ tag_off = 0
    /\ hw = <<>>
    /\ eth_addr = <<>>
    /\ serial = 0
    /\ cout = <<>>
    /\ cerrs = <<>>

Init == InitPt /\ InitCfg

Next ==
    \/ ReadPt
    \/ CheckVersion
    \/ CheckBct
    \/ PartLoop
    \/ AfterLoop
    \/ GptReadHeader
    \/ GptCheckSignature
    \/ GptCheckCrc
    \/ GptSizes
    \/ GptReadTable
    \/ GptEntry

Spec == Init /\ [][Next]_vars

----------------------------------------------------------------------------
(* trdx-configblock: main() and read_config_block() *)

\* the n bytes at 0-based offset o can be read
Readable(b, o, n) == o + n <= Len(b)

\* return r from read_config_block()
CfgReturnWith(r) ==
    /\ cret' = r
    /\ cpc' = "returned"

\* main() up to its first call of read_config_block()
CfgMain ==
    /\ cpc = "main"
    /\ \E c \in CmdLines : cfg' = c
    /\ cand' = 1
    /\ cpc' = "open"
    /\ UNCHANGED <<cret, rlen, block, tag_off, hw, eth_addr, serial, cout, cerrs>>
    /\ UNCHANGED ptVars

\* open(devfile), lseek64(fd, skip, ...), malloc(TRDX_CFG_BLOCK_MAX_SIZE)
CfgOpen ==
    /\ cpc = "open"
    /\ tag_off' = 0
    /\ serial' = 0
    /\ \/ /\ cerrs' = Append(cerrs, "OpenFailed")
          /\ CfgReturnWith(-1)
       \/ /\ cerrs' = Append(cerrs, "SeekFailed")
          /\ CfgReturnWith(-1)
       \/ /\ cerrs' = Append(cerrs, "NoMemory")
          /\ CfgReturnWith(-1)
       \/ /\ cpc' = "read"
          /\ UNCHANGED <<cerrs, cret>>
    /\ UNCHANGED <<cand, cfg, rlen, block, hw, eth_addr, cout>>
    /\ UNCHANGED ptVars

\* len = read(fd, config_block, read_size); if (len < read_size) ...; ret = 0
\* r is what read() returns.  After a read of fewer than 512 bytes the rest of
\* the malloc'ed block holds any bytes, and so does all of it after a failed read.
CfgRead ==
    /\ cpc = "read"
    /\ \E r \in {-1, 0, 1, TRDX_CFG_BLOCK_MAX_SIZE - 1, TRDX_CFG_BLOCK_MAX_SIZE} :
         /\ rlen' = r
         /\ IF ShortRead(r, TRDX_CFG_BLOCK_MAX_SIZE)
            THEN /\ cerrs' = Append(cerrs, "IoError")
                 /\ CfgReturnWith(-1)
                 /\ UNCHANGED block
            ELSE /\ \E b \in CfgBlocks, pos \in Positions(CallSkip(cfg, cand)) :
                      \E t \in Tails \cup StdoutTails(CallDev(cfg, cand), pos) :
                          block' = b \o t
                 /\ cret' = 0
                 /\ cpc' = "sentinel"
                 /\ UNCHANGED cerrs
    /\ UNCHANGED <<cand, cfg, tag_off, hw, eth_addr, serial, cout>>
    /\ UNCHANGED ptVars

\* the test of the first tag; tag_off = 4; printf("Toradex config block found"); the memsets
CfgSentinel ==
    /\ cpc = "sentinel"
    /\ IF NoConfigBlock(block)
       THEN /\ cerrs' = Append(cerrs, "NoConfigBlock")
            /\ cpc' = "returned"
            /\ UNCHANGED <<tag_off, cout, hw, eth_addr>>
       ELSE /\ tag_off' = 4
            /\ cout' = Append(cout, [kind |-> "found", dev |-> CallDev(cfg, cand)])
            /\ hw' = Zeros(HW_SIZE)
            /\ eth_addr' = Zeros(ETH_ADDR_SIZE)
            /\ cpc' = "walk"
            /\ UNCHANGED cerrs
    /\ UNCHANGED <<cret, cand, cfg, rlen, block, serial>>
    /\ UNCHANGED ptVars

\* tag_off += 4; ...; tag_off += tag->len * 4, for the tag at cursor c
NextTagOff(b, c) == c + TAG_SIZE + tag_len(b, c) * 4

\* The first heap of the C library's allocator: its size in bytes, and the
\* offset in it of config_block, the first block the program allocates.
HEAP_SIZE == 135168

HEAP_BLOCK_OFF == 672

\* b ends with the chunk header of the stdio buffer of stdout
HasStdoutChunk(b) ==
    /\ Len(b) >= TRDX_CFG_BLOCK_MAX_SIZE + 16
    /\ SubSeq(b, TRDX_CFG_BLOCK_MAX_SIZE + 9, TRDX_CFG_BLOCK_MAX_SIZE + 10) \in StdoutChunkSizes

\* the offset from config_block of the size field of the chunk after the stdio
\* buffer, the top chunk of the heap
TopSizeAt(b) ==
    TRDX_CFG_BLOCK_MAX_SIZE + 8 + (Le16(b, TRDX_CFG_BLOCK_MAX_SIZE + 8) - 1)

\* The byte read at 0-based offset q of b.  b is config_block and the heap
\* bytes after it that the model gives a value (a tail, among them the stdio
\* buffer with the line just printed).  Further on the heap has not been
\* written, except for the 8-byte size field of its top chunk, which holds the
\* number of bytes left in the heap from that chunk on, with the in-use bit:
\* when a byte there can be read at all, it is read as zero or as a byte of
\* that field.
MemByte(b, q) ==
    IF q < Len(b) THEN b[q + 1]
    ELSE IF HasStdoutChunk(b) /\ q >= TopSizeAt(b) /\ q < TopSizeAt(b) + 8
         THEN LET left == HEAP_SIZE - (HEAP_BLOCK_OFF + TopSizeAt(b) - 8)
              IN  (Bytes32(W(left + 1)) \o Zeros(4))[q - TopSizeAt(b) + 1]
         ELSE 0

\* the n bytes read at 0-based offset o of b
Mem(b, o, n) == [k \in 1..n |-> MemByte(b, o + k - 1)]

\* one iteration of while (true).  The loop has no test of tag_off against the
\* size of the block: a tag header or payload outside the bytes the model
\* gives a value is read from the heap, where the read faults or finds zero.
CfgTag ==
    /\ cpc = "walk"
    /\ LET header == Mem(block, tag_off, TAG_SIZE)
           id == tag_id(header, 0)
           payload == tag_off + TAG_SIZE
           next == tag_off + NextTagOff(header, 0)
       IN  \/ /\ ~Readable(block, tag_off, TAG_SIZE)
              /\ cpc' = "fault"
              /\ UNCHANGED <<tag_off, hw, eth_addr, serial, cout, cerrs>>
           \/ /\ tag_flags(header, 0) # TAG_FLAG_VALID
              /\ cpc' = "print"
              /\ UNCHANGED <<tag_off, hw, eth_addr, serial, cout, cerrs>>
           \/ /\ tag_flags(header, 0) = TAG_FLAG_VALID
              /\ id = TAG_MAC
              /\ \/ /\ eth_addr' = Mem(block, payload, ETH_ADDR_SIZE)
                    /\ serial' = Serial(eth_addr')
                    /\ cout' = Append(cout, [kind |-> "tag", id |-> id, at |-> tag_off])
                    /\ tag_off' = next
                    /\ UNCHANGED <<cpc, hw, cerrs>>
                 \/ /\ ~Readable(block, payload, ETH_ADDR_SIZE)
                    /\ cpc' = "fault"
                    /\ UNCHANGED <<tag_off, hw, eth_addr, serial, cout, cerrs>>
           \/ /\ tag_flags(header, 0) = TAG_FLAG_VALID
              /\ id = TAG_HW
              /\ \/ /\ hw' = Mem(block, payload, HW_SIZE)
                    /\ cout' = Append(cout, [kind |-> "tag", id |-> id, at |-> tag_off])
                    /\ tag_off' = next
                    /\ UNCHANGED <<cpc, eth_addr, serial, cerrs>>
                 \/ /\ ~Readable(block, payload, HW_SIZE)
                    /\ cpc' = "fault"
                    /\ UNCHANGED <<tag_off, hw, eth_addr, serial, cout, cerrs>>
           \/ /\ tag_flags(header, 0) = TAG_FLAG_VALID
              /\ id \notin {TAG_MAC, TAG_HW}
              /\ cerrs' = Append(cerrs, "UnknownTag")
              /\ cout' = Append(cout, [kind |-> "tag", id |-> id, at |-> tag_off])
              /\ tag_off' = next
              /\ UNCHANGED <<cpc, hw, eth_addr, serial>>
    /\ UNCHANGED <<cret, cand, cfg, rlen, block>>
    /\ UNCHANGED ptVars

\* the three printf after the loop
CfgPrint ==
    /\ cpc = "print"
    /\ \/ \E name \in ModuleNames(hw_prodid(hw)) :
            /\ cout' = cout \o
                 << [kind |-> "model", index |-> hw_prodid(hw), name |-> name,
                     major |-> hw_ver_major(hw), minor |-> hw_ver_minor(hw),
                     assembly |-> hw_ver_assembly(hw)],
                    [kind |-> "serial", serial |-> serial],
                    [kind |-> "mac", mac |-> MacBytes(eth_addr)] >>
            /\ cpc' = "returned"
       \/ /\ ~ModuleDefined(hw_prodid(hw))
          /\ cpc' = "fault"
          /\ UNCHANGED cout
    /\ UNCHANGED <<cret, cand, cfg, rlen, block, tag_off, hw, eth_addr, serial, cerrs>>
    /\ UNCHANGED ptVars

\* main() after a call of read_config_block(): the second call, or return ret
CfgReturned ==
    /\ cpc = "returned"
    /\ IF cfg.devfile = "" /\ cand = 1 /\ cret # 0
       THEN /\ cand' = 2
            /\ cpc' = "open"
       ELSE /\ cpc' = "done"
            /\ UNCHANGED cand
    /\ UNCHANGED <<cret, cfg, rlen, block, tag_off, hw, eth_addr, serial, cout, cerrs>>
    /\ UNCHANGED ptVars

NextCfg ==
    \/ CfgMain
    \/ CfgOpen
    \/ CfgRead
    \/ CfgSentinel
    \/ CfgTag
    \/ CfgPrint
    \/ CfgReturned

SpecCfg == Init /\ [][NextCfg]_vars

----------------------------------------------------------------------------
(* Properties *)

Has(s, x) == \E k \in 1..Len(s) : s[k] = x

IsPart(r) == r.kind = "part"

IsGptEntry(r) == r.kind = "gpt_entry"

\* the indices of the partition records handed to the sink, in order
PartsOut == LET s == SelectSeq(out, IsPart) IN [k \in 1..Len(s) |-> s[k].n]

Upto(n) == [k \in 1..n |-> k - 1]

\* the PT was read in full
PtWasRead == pt # NoImage

\* the version test has been made
VersionChecked == PtWasRead /\ pc \notin {"read_pt", "check_version"}

\* the tests of the header and of record 0 have been made and passed
PtValidated ==
    /\ VersionChecked
    /\ pc # "bct"
    /\ ~Has(errs, "VersionMismatch")
    /\ ~Has(errs, "InvalidBootConfigRecord")

\* the loop over the records has ended
PtParsed == PtValidated /\ pc # "loop"

\* the GPT decoder has been entered
GptStarted ==
    pc \in {"gpt_header", "gpt_signature", "gpt_crc", "gpt_sizes", "gpt_read",
            "gpt_entries", "fault"} \/ gpt_block # <<>>

\* the GPT header has been accepted
GptAccepted ==
    pc \in {"gpt_sizes", "gpt_read", "gpt_entries"} \/ allocs # <<>>

\* C1: a buffer is rejected with VersionMismatch exactly when its version field
\* is not 0x00010000.
C1_VersionMagic ==
    VersionChecked => (Has(errs, "VersionMismatch") <=> pt_version(pt) # VERSION)

\* the first tag of the block is the sentinel: id 0xcf01 and flags valid
SentinelValid(b) == tag_id(b, 0) = TAG_VALID /\ tag_flags(b, 0) = TAG_FLAG_VALID

\* the block has been read and its first tag tested
SentinelTested == block # <<>> /\ cpc \notin {"read", "sentinel"}

\* C2: a block whose first tag has a wrong id or flags other than valid is
\* reported as NoConfigBlock, no tag of it is dispatched and nothing is printed.
C2_SentinelBoth ==
    (SentinelTested /\ rlen = TRDX_CFG_BLOCK_MAX_SIZE /\ ~SentinelValid(block)) =>
        (Has(cerrs, "NoConfigBlock") /\ cout = <<>> /\ cpc \in {"returned", "done"})

\* C3: the config block is decoded only after a read of all 512 bytes; any
\* other result of read() ends the call with an I/O error.
C3_ReadExact ==
    /\ (cpc \in {"sentinel", "walk", "print", "fault"} \/ cout # <<>>)
           => rlen = TRDX_CFG_BLOCK_MAX_SIZE
    /\ (cpc \in {"returned", "done"} /\ rlen # 0 /\ rlen # TRDX_CFG_BLOCK_MAX_SIZE)
           => Has(cerrs, "IoError")

\* C4: the table of module names is indexed only with the index of an entry
\* that holds a name; any other product id ends the decode with UnknownModuleId.
C4_ModuleLookupChecked ==
    /\ \A k \in 1..Len(cout) :
         (rlen = TRDX_CFG_BLOCK_MAX_SIZE /\ cout[k].kind = "model")
             => ModuleDefined(cout[k].index)
    /\ (rlen = TRDX_CFG_BLOCK_MAX_SIZE /\ hw # <<>> /\ cpc \in {"returned", "done", "fault"} /\ ~ModuleDefined(hw_prodid(hw)))
           => Has(cerrs, "UnknownModuleId")

\* record 0 fails one of the boot-config checks as the claim words them: id
\* other than 2, a name field whose first 3 bytes are not "BCT", or a physical
\* start sector other than 0
BctViolated(img) ==
    \/ p_id(img, 0) # W(2)
    \/ SubSeq(p_name(img, 0), 1, 3) # <<66, 67, 84>>
    \/ SubSeq(p_name2(img, 0), 1, 3) # <<66, 67, 84>>
    \/ p_start_sector(img, 0) # W(0)

\* C5 as stated: a table whose record 0 fails a boot-config check ends with
\* InvalidBootConfigRecord and not one partition record reaches the sink.
C5_NoRecordAtAll ==
    (VersionChecked /\ VersionOk(pt) /\ pc = "done" /\ BctViolated(pt)) =>
        (Has(errs, "InvalidBootConfigRecord") /\ PartsOut = <<>>)

\* C5 as amended: a table that is read in full, passes the version test and
\* whose record 0 fails a boot-config check ends in failure with
\* InvalidBootConfigRecord whatever its other records are; record 0, printed
\* before it is tested, is the only partition record that reaches the sink, and
\* the GPT decoder is not entered.
C5_BctFailureAborts ==
    (VersionChecked /\ VersionOk(pt) /\ pc # "bct" /\ BctViolated(pt)) =>
        /\ pc = "done"
        /\ ret = -1
        /\ errs = <<"InvalidBootConfigRecord">>
        /\ PartsOut = <<0>>
        /\ ~GptStarted

C5_Witness ==
    /\ pc = "done"
    /\ VersionOk(pt)
    /\ p_id(pt, 0) = W(2)
    /\ p_name(pt, 0) = PT_BCT_NAME
    /\ p_name2(pt, 0) # PT_BCT_NAME
    /\ pt_num_parts(pt) = W(MAX_NUM_PARTS)
    /\ errs = <<"InvalidBootConfigRecord">>

\* the declared count, when it is at most 24
NumPartsSmall(img) == pt_num_parts(img)[1] = 0 /\ pt_num_parts(img)[2] <= MAX_NUM_PARTS

\* min(num_parts, 24)
CountUsed(img) ==
    IF WLt(pt_num_parts(img), W(MAX_NUM_PARTS)) THEN pt_num_parts(img)[2] ELSE MAX_NUM_PARTS

\* record n has an id below 128
IdBelow128(img, n) == p_id(img, n)[1] = 0 /\ p_id(img, n)[2] < 128

\* C6 as stated: with num_parts in 0..24 and every record 1..num_parts-1 of id
\* below 128, the number of records returned is num_parts.
C6_CountAsDeclared ==
    (PtParsed /\ NumPartsSmall(pt)
       /\ \A n \in 1..(pt_num_parts(pt)[2] - 1) : IdBelow128(pt, n))
    => Len(PartsOut) = pt_num_parts(pt)[2]

\* C6 as amended: the same for num_parts in 1..24.
C6_CountAsDeclaredFrom1 ==
    (PtParsed /\ NumPartsSmall(pt) /\ pt_num_parts(pt)[2] >= 1
       /\ \A n \in 1..(pt_num_parts(pt)[2] - 1) : IdBelow128(pt, n))
    => Len(PartsOut) = pt_num_parts(pt)[2]

C6_Witness ==
    /\ PtParsed
    /\ pt_num_parts(pt) = W(MAX_NUM_PARTS)
    /\ \A n \in 1..(MAX_NUM_PARTS - 1) : IdBelow128(pt, n)
    /\ Len(PartsOut) = MAX_NUM_PARTS

\* n is the smallest index in 1..min(num_parts, 24)-1 of a record with id >= 128
FirstInvalid(img, n) ==
    /\ n \in 1..(CountUsed(img) - 1)
    /\ ~IdBelow128(img, n)
    /\ \A m \in 1..(n - 1) : IdBelow128(img, m)

\* C7: when record n is the first with id >= 128, exactly records 0..n-1 are
\* returned, in index order, and the parse is no failure: the only message is
\* the one of the invalid id, the decode goes on to the GPT stage, and it ends
\* with ret = 0 when no GPT partition was seen.
C7_TruncateAtInvalidId ==
    \A n \in 1..(MAX_NUM_PARTS - 1) :
        (PtParsed /\ FirstInvalid(pt, n)) =>
            /\ PartsOut = Upto(n)
            /\ Has(errs, "InvalidId")
            /\ (pc = "after_loop" => errs = <<"InvalidId">>)
            /\ ((pc = "done" /\ gpt = 0) => ret = 0)

C7_Witness ==
    /\ pc = "done"
    /\ ret = 0
    /\ FirstInvalid(pt, 2)
    /\ ~IdBelow128(pt, 3)
    /\ pt_num_parts(pt) = W(MAX_NUM_PARTS + 1)
    /\ PartsOut = <<0, 1>>

\* the first 3 bytes of both name fields of record n are "GPT"
NamedGpt(img, n) ==
    /\ SubSeq(p_name(img, n), 1, 3) = <<71, 80, 84>>
    /\ SubSeq(p_name2(img, n), 1, 3) = <<71, 80, 84>>

\* C8: once the loop has ended, a GPT locator is flagged exactly when a returned
\* record of index >= 1 is named "GPT" in both name fields, and it is such a
\* record; the table of the scenario yields records 0 and 1 with record 1
\* flagged; the GPT decoder is entered only with a locator flagged, and without
\* one the run ends with ret = 0.
C8_GptLocator ==
    PtParsed =>
        /\ gpt # 0 <=> \E k \in 1..Len(PartsOut) : PartsOut[k] >= 1 /\ NamedGpt(pt, PartsOut[k])
        /\ gpt # 0 => (Has(PartsOut, gpt) /\ NamedGpt(pt, gpt))
        /\ pt = ScenarioImage => (PartsOut = <<0, 1>> /\ gpt = 1)
        /\ GptStarted => gpt # 0
        /\ (gpt = 0 /\ pc = "done") => (ret = 0 /\ Has(out, [kind |-> "no_gpt"]))

C8_Witness ==
    /\ pt = ScenarioImage
    /\ pc = "gpt_header"
    /\ gpt = 1
    /\ PartsOut = <<0, 1>>

\* the header block as it was read from the device: gpt_block with the stored
\* CRC, which the decoder has zeroed in place, put back
BlockAsRead == Poke(gpt_block, GH_CRC_SELF, crc_self)

\* the offset o lies in the header: in the 92 bytes of struct gpt_header, or
\* in the header.size bytes the stored CRC was computed over
InHeader(o, size) == o < GPT_HEADER_SIZE \/ o < size[2]

\* The header blocks with a matching signature and a stored CRC that matched
\* the block's first header.size bytes, in which one byte of the header outside
\* crc_self was then altered while the stored CRC was left as it was.
TamperedInHeader ==
    UNION { {Tamper(GoodHeader(GPT_SIGNATURE, sz, <<W(2), W(GPT_ENTRY_SIZE)>>), o, d) :
                o \in {t \in TamperOffsets : InHeader(t, sz)}, d \in {1, 128}} :
            sz \in HeaderSizes }

\* some entry of the GPT has been printed
EntryEmitted == \E k \in 1..Len(out) : IsGptEntry(out[k])

\* C9: the entry array is read and entries are printed only for a block whose
\* signature is "EFI PART" and whose stored CRC is the CRC32 of its first
\* header.size bytes with crc_self zeroed; so no block, taken with the CRC it
\* stores, in which a byte of the header outside crc_self was altered after
\* the CRC was stored is accepted.  (Both for a size field of at most 512; a
\* larger one is the case of C15.)
C9_HeaderIntegrity ==
    ((GptAccepted \/ EntryEmitted) /\ CrcInBlock(gpt_block)) =>
        /\ SignatureOk(gpt_block)
        /\ HeaderCrc(gpt_block) = crc_self
        /\ BlockAsRead \notin TamperedInHeader

\* 1 MiB, and the cap rounded up to a whole number of sectors
ENTRY_ARRAY_CAP == <<16, 0>>

\* C10: no buffer above the cap of 1 MiB (rounded up to a sector) is allocated
\* for the entry array, and a header whose entry_count * entry_size exceeds
\* 1 MiB is rejected before the allocation and the read.
C10_EntryArrayCapped ==
    /\ \A k \in 1..Len(allocs) : WLe(allocs[k], Count(ENTRY_ARRAY_CAP, sector_size))
    /\ (pc \in {"gpt_read", "gpt_entries", "fault", "done"} /\ WLt(ENTRY_ARRAY_CAP, gpt_size))
           => (allocs = <<>> /\ ~EntryEmitted /\ ret = -1)

\* the n bytes at offset o lie inside the 512 bytes of the config block
InBlock(o, n) == o + n <= TRDX_CFG_BLOCK_MAX_SIZE

IsTag(r) == r.kind = "tag"

\* the tags dispatched so far, in order
TagsOut == SelectSeq(cout, IsTag)

\* the cursor after a tag at cursor c of 14-bit length L: c + 4 + 4 * L
Stride(b, c) == c + 4 + 4 * tag_len(b, c)

\* where the cursor must be after the tags dispatched so far
CursorDue == IF TagsOut = <<>> THEN 4 ELSE Stride(block, TagsOut[Len(TagsOut)].at)

\* the valid-flag bit, bit 0 of the 2-bit flags field, of the tag header at
\* cursor c inside the block
ValidBit(b, c) == tag_flags(b, c) % 2

\* the cursor starts at 4 and moves by 4 + 4 * L over each tag whatever its id
CursorRule ==
    /\ \A k \in 1..Len(TagsOut) :
         TagsOut[k].at = (IF k = 1 THEN 4 ELSE Stride(block, TagsOut[k - 1].at))
    /\ cpc \in {"walk", "print"} => tag_off = CursorDue

\* nothing is dispatched once the walk has stopped
NoTagAfterStop ==
    /\ \A k \in 1..Len(cout) : \A j \in 1..Len(cout) :
         (cout[k].kind = "model" /\ j > k) => ~IsTag(cout[j])
    /\ cpc \in {"print", "returned", "done", "fault"} =>
         (\A k \in 1..Len(TagsOut) : TagsOut[k].at < tag_off)

\* C11: the cursor starts at 4 and moves by 4 + 4 * L over each tag whatever
\* its id; every tag of the block that is dispatched has its valid-flag bit
\* set, and the walk stops at a tag header of the block only if its valid-flag
\* bit is unset; after the stop nothing is dispatched.
C11_WalkValidBit ==
    rlen = TRDX_CFG_BLOCK_MAX_SIZE =>
        /\ CursorRule
        /\ \A k \in 1..Len(TagsOut) :
             InBlock(TagsOut[k].at, TAG_SIZE) => ValidBit(block, TagsOut[k].at) = 1
        /\ (cpc = "print" /\ InBlock(tag_off, TAG_SIZE)) => ValidBit(block, tag_off) = 0
        /\ NoTagAfterStop

\* "Toradex config block found" was printed
BlockFound == \E k \in 1..Len(cout) : cout[k].kind = "found"

\* C12: with no device given, a first candidate that is read in full and
\* reported to hold no config block is followed by the second candidate, and
\* main() returns 0 only if a candidate held a config block.
C12_FallbackOnAbsence ==
    (cpc = "done" /\ rlen = TRDX_CFG_BLOCK_MAX_SIZE) =>
        /\ (cfg.devfile = "" /\ cerrs # <<>> /\ cerrs[1] = "NoConfigBlock") => cand = 2
        /\ cret = 0 => BlockFound

\* C13: after a full read and an accepted first tag, every tag header the walk
\* reads, and the MAC or HW payload it copies, lies inside the 512 bytes of the
\* block, and the walk ends without a read outside it.
C13_WalkInsideBlock ==
    rlen = TRDX_CFG_BLOCK_MAX_SIZE =>
        /\ cpc \in {"walk", "print"} => InBlock(tag_off, TAG_SIZE)
        /\ \A k \in 1..Len(TagsOut) :
             /\ InBlock(TagsOut[k].at, TAG_SIZE)
             /\ TagsOut[k].id = TAG_MAC => InBlock(TagsOut[k].at + TAG_SIZE, ETH_ADDR_SIZE)
             /\ TagsOut[k].id = TAG_HW => InBlock(TagsOut[k].at + TAG_SIZE, HW_SIZE)
        /\ cpc = "fault" => InBlock(tag_off, TAG_SIZE)

\* cnt is the smallest multiple of ss that is >= gs
SmallestMultiple(cnt, gs, ss) ==
    /\ WModSmall(cnt, ss) = 0
    /\ WLe(gs, cnt)
    /\ WLt(cnt, WAdd(gs, W(ss)))

\* the indices below num_entries (num_entries < 2^16 in every header tried)
EntryIndices == IF num_entries[1] = 0 THEN 0..(num_entries[2] - 1) ELSE {}

\* C14: once the buffer of the entry array is allocated, its length is the
\* smallest multiple of the sector size that is >= entry_count * entry_size
\* taken modulo 2^32, and the 128 bytes of every entry i < entry_count, at
\* offset i * entry_size, lie inside a buffer of that length.
C14_EntriesInsideRead ==
    allocs # <<>> =>
        /\ gpt_size = Mul32(gh_num_entries(gpt_block), gh_entry_size(gpt_block))
        /\ SmallestMultiple(count, gpt_size, sector_size)
        /\ allocs[Len(allocs)] = count
        /\ \A n \in EntryIndices : EntryInside(gpt_block, n, count)

\* C15: crc32() is given at most the 512 bytes of gpt_block: once the CRC of a
\* block with a matching signature has been computed, the length it was
\* computed over, the header's size field, is at most 512.
C15_CrcInsideBlock ==
    (gpt_block # <<>> /\ SignatureOk(gpt_block) /\ pc \notin {"gpt_signature", "gpt_crc"}) =>
        /\ crc_len = gh_size(gpt_block)
        /\ WLe(crc_len, W(GPT_BLOCK_SIZE))

====
